---------------------------- MODULE Spec2Model ----------------------------
(***************************************************************************)
(* Model of the b-jet classification notebook (src/unnamed/part_000): the  *)
(* kernel's global namespace, the two threshold selection cells, the       *)
(* function evaluate and the cells that call it.                           *)
(*                                                                         *)
(* Scores are modelled in hundredths (0.15 is 15, 0.82 is 82).  The two    *)
(* floats evaluate returns are modelled as exact rationals <<num, den>>.   *)
(* Lists created by evaluate live in heap, a function from object ids to   *)
(* 2x2 matrices; a reference is an id, 0 when nothing is referenced.  An    *)
(* object no name refers to any more is reclaimed.                         *)
(*                                                                         *)
(* The same notebook's data cell (column selection by name) and plotting   *)
(* cell (SavePlots) are modelled too, and so are the two computations of   *)
(* the curse-of-dimensionality notebook                                    *)
(* (src/Week1/.ipynb_checkpoints/CurseOfDimensionality-checkpoint.ipynb):  *)
(* the 2D circle sample and plot_neighbours.  Coordinates there are in     *)
(* halves (1.0 is 2), and distances are compared exactly through their     *)
(* squares.                                                                *)
(***************************************************************************)
EXTENDS Integers, Sequences, FiniteSets, TLC

\* Bounds of the model.
MaxRows == 2
MaxLen == 4
MaxCols == 4
MaxPlotRows == 1
MaxPoints == 3

\* Program constants (hundredths).
cut_prop_b == 15
cut_nnbjet == 82

VARIABLES data, names, bquark, N, accuracy, fracWrong, heap, ret, lastRun,
          header, sel, SavePlots, files, draw, circle, pn

\* The state of the data cell, of the plotting cell and of the
\* curse-of-dimensionality notebook.
others == <<header, sel, SavePlots, files, draw, circle, pn>>

vars == <<data, names, bquark, N, accuracy, fracWrong, heap, ret, lastRun,
          header, sel, SavePlots, files, draw, circle, pn>>

Bits == {0, 1}

SeqsUpTo(S, n) == UNION {[1..k -> S] : k \in 0..n}

\* Scores a row can hold: around the cut on prob_b, at and above the cut on
\* nnbjet.
ProbBVals == {cut_prop_b - 1, cut_prop_b, cut_prop_b + 1}

NnbjetVals == {cut_nnbjet, cut_nnbjet + 1}

\* The table read from the CSV file: the columns the notebook uses.
Tables(n) ==
    UNION {[prob_b : [1..k -> ProbBVals], nnbjet : [1..k -> NnbjetVals],
            isb : [1..k -> Bits]] : k \in 0..n}

\* Tables whose scores are all below the cuts; only the truth column varies.
TruthTables(n) ==
    UNION {[prob_b : {[i \in 1..k |-> 0]}, nnbjet : {[i \in 1..k |-> 0]},
            isb : [1..k -> Bits]] : k \in 0..n}

---------------------------------------------------------------------------
\* The threshold loops: bquark = [] and one append per row.

\* SelectLoop with >= for >.
RECURSIVE SelectLoopGeq(_, _, _, _)
SelectLoopGeq(col, cut, i, out) ==
    IF i > Len(col) THEN out
    ELSE SelectLoopGeq(col, cut, i + 1,
                       Append(out, IF col[i] >= cut THEN 1 ELSE 0))

\* SelectLoop without bquark = []: the appends go to the list bquark is
\* bound to already.
RECURSIVE SelectLoopNoReset(_, _, _, _)
SelectLoopNoReset(col, cut, i, out) ==
    IF i > Len(col) THEN out
    ELSE SelectLoopNoReset(col, cut, i + 1,
                           Append(IF i = 1 THEN bquark ELSE out,
                                  IF col[i] > cut THEN 1 ELSE 0))

RECURSIVE SelectLoop(_, _, _, _)
SelectLoop(col, cut, i, out) ==
    IF i > Len(col) THEN out
    ELSE SelectLoop(col, cut, i + 1,
                    Append(out, IF col[i] > cut THEN 1 ELSE 0))

---------------------------------------------------------------------------
\* evaluate

ZeroMatrix == <<<<0, 0>>, <<0, 0>>>>

EmptyHeap == [id \in {} |-> ZeroMatrix]

\* The id a newly created object gets: the lowest one not in use.
FreshId(h) ==
    CHOOSE id \in 1..(Cardinality(DOMAIN h) + 1) :
        /\ id \notin DOMAIN h
        /\ \A j \in 1..(id - 1) : j \in DOMAIN h

\* NewN as a mutable default argument: the list made by the first call is
\* used again by every later call.
NewNDefault(h) ==
    IF DOMAIN h = {}
    THEN [heap |-> [j \in {1} |-> ZeroMatrix], ref |-> 1]
    ELSE [heap |-> h, ref |-> CHOOSE id \in DOMAIN h : TRUE]

\* NewN without the assignment: N in the body is the global N when bound.
NewNGlobal(h) ==
    IF N \in DOMAIN h THEN [heap |-> h, ref |-> N]
    ELSE LET id == FreshId(h)
         IN  [heap |-> [j \in DOMAIN h \cup {id} |->
                           IF j = id THEN ZeroMatrix ELSE h[j]],
              ref |-> id]

\* N = [[0,0], [0,0]]: a new list object bound to the local name N.
NewN(h) ==
    LET id == FreshId(h)
    IN  [heap |-> [j \in DOMAIN h \cup {id} |->
                      IF j = id THEN ZeroMatrix ELSE h[j]],
         ref |-> id]

\* Incr with the two indices swapped.
IncrSwapped(M, p, a) == [M EXCEPT ![a + 1][p + 1] = @ + 1]

\* N[p][a] += 1 (Python indices are 0-based).
Incr(M, p, a) == [M EXCEPT ![p + 1][a + 1] = @ + 1]

\* LoopBody whose second test lost its condition on the truth.
LoopBodyDoubleCount(M, p, a) ==
    LET M1 == IF p = 0 /\ a = 0 THEN Incr(M, 0, 0) ELSE M
        M2 == IF p = 0 THEN Incr(M1, 0, 1) ELSE M1
        M3 == IF p = 1 /\ a = 0 THEN Incr(M2, 1, 0) ELSE M2
        M4 == IF p = 1 /\ a = 1 THEN Incr(M3, 1, 1) ELSE M3
    IN  M4

\* LoopBody whose fourth statement increments N[1][0].
LoopBodyTypo11(M, p, a) ==
    LET M1 == IF p = 0 /\ a = 0 THEN Incr(M, 0, 0) ELSE M
        M2 == IF p = 0 /\ a = 1 THEN Incr(M1, 0, 1) ELSE M1
        M3 == IF p = 1 /\ a = 0 THEN Incr(M2, 1, 0) ELSE M2
        M4 == IF p = 1 /\ a = 1 THEN Incr(M3, 1, 0) ELSE M3
    IN  M4

\* LoopBody whose first test has or for and.
LoopBodyOr(M, p, a) ==
    LET M1 == IF p = 0 \/ a = 0 THEN Incr(M, 0, 0) ELSE M
        M2 == IF p = 0 /\ a = 1 THEN Incr(M1, 0, 1) ELSE M1
        M3 == IF p = 1 /\ a = 0 THEN Incr(M2, 1, 0) ELSE M2
        M4 == IF p = 1 /\ a = 1 THEN Incr(M3, 1, 1) ELSE M3
    IN  M4

\* The body of the for loop: four independent if statements.
LoopBody(M, p, a) ==
    LET M1 == IF p = 0 /\ a = 0 THEN Incr(M, 0, 0) ELSE M
        M2 == IF p = 0 /\ a = 1 THEN Incr(M1, 0, 1) ELSE M1
        M3 == IF p = 1 /\ a = 0 THEN Incr(M2, 1, 0) ELSE M2
        M4 == IF p = 1 /\ a = 1 THEN Incr(M3, 1, 1) ELSE M3
    IN  M4

\* for i in np.arange(len(data['isb'])): bquark[i] raises IndexError when
\* the list is shorter than the truth column.
RECURSIVE CountLoop(_, _, _, _)
CountLoop(M, pred, isb, i) ==
    IF i > Len(isb) THEN [kind |-> "ok", N |-> M]
    ELSE IF i > Len(pred) THEN [kind |-> "IndexError", N |-> M]
    ELSE CountLoop(LoopBody(M, pred[i], isb[i]), pred, isb, i + 1)

NoRatio == <<0, 1>>

\* Divide as numpy floats divide: a zero divisor gives nan, here <<num, 0>>.
DivideNaN(num, den) == [kind |-> "ok", val |-> <<num, den>>]

\* Division of two Python floats: a zero divisor raises ZeroDivisionError.
Divide(num, den) ==
    IF den = 0 THEN [kind |-> "ZeroDivisionError", val |-> NoRatio]
    ELSE [kind |-> "ok", val |-> <<num, den>>]

\* FracWrong counting the false negatives only.
FracWrongOneCell(M, n) == Divide(M[1][2], n)

\* float(N[0][1]+N[1][0])/float(len(data['isb']))
FracWrong(M, n) == Divide(M[1][2] + M[2][1], n)

\* 1.0 - fracWrong
Accuracy(fw) == <<fw[2] - fw[1], fw[2]>>

Failure(kind, pred, h) ==
    [kind |-> kind, pred |-> pred, N |-> 0, accuracy |-> NoRatio,
     fracWrong |-> NoRatio, heap |-> h]

\* A call evaluate(pred) with truth column isb and object store h: the
\* outcome (a returned tuple or the exception raised) and the store after.
evaluate(pred, isb, h) ==
    LET new == NewN(h)
        loop == CountLoop(new.heap[new.ref], pred, isb, 1)
        fw == FracWrong(loop.N, Len(isb))
        after == [new.heap EXCEPT ![new.ref] = loop.N]
    IN  IF loop.kind # "ok" THEN Failure(loop.kind, pred, after)
        ELSE IF fw.kind # "ok" THEN Failure(fw.kind, pred, after)
        ELSE [kind |-> "ok", pred |-> pred, N |-> new.ref,
              accuracy |-> Accuracy(fw.val), fracWrong |-> fw.val,
              heap |-> after]

\* What the kernel keeps of an outcome (the store is kept in heap).
Outcome(r) ==
    [kind |-> r.kind, pred |-> r.pred, N |-> r.N, accuracy |-> r.accuracy,
     fracWrong |-> r.fracWrong]

NoCall == Outcome(Failure("none", <<>>, EmptyHeap))

\* The store once the objects nothing refers to are reclaimed: a report is
\* reachable from the global name N and from the outcome last shown.
Collect(h, refs) == [id \in DOMAIN h \cap refs |-> h[id]]

---------------------------------------------------------------------------
\* The data cell: columns selected by name.

Range(s) == {s[i] : i \in DOMAIN s}

\* The header of the table the model's rows come from.
DataHeader == <<"prob_b", "nnbjet", "isb">>

\* Column names a header can hold: two inputs and the five names the cell
\* mentions.
ColumnNames ==
    {"prob_b", "spheri", "nnbjet", "isb", "energy", "cTheta", "phi"}

\* Headers of up to n distinct names.
Headers(n) ==
    {h \in SeqsUpTo(ColumnNames, n) :
        \A i \in DOMAIN h : \A j \in DOMAIN h : i # j => h[i] # h[j]}

\* InputMask without the test on isb.
InputMaskKeepsTruth(vs) ==
    [i \in 1..Len(vs) |->
        /\ vs[i] # "nnbjet" /\ vs[i] # "energy"
        /\ vs[i] # "cTheta" /\ vs[i] # "phi"]

\* (variables != 'nnbjet') & (variables != 'isb') & (variables != 'energy')
\* & (variables != 'cTheta') & (variables != 'phi')
InputMask(vs) ==
    [i \in 1..Len(vs) |->
        /\ vs[i] # "nnbjet" /\ vs[i] # "isb" /\ vs[i] # "energy"
        /\ vs[i] # "cTheta" /\ vs[i] # "phi"]

\* variables[mask]: the entries whose mask is True, in their order.
RECURSIVE BoolIndex(_, _, _, _)
BoolIndex(vs, mask, i, out) ==
    IF i > Len(vs) THEN out
    ELSE BoolIndex(vs, mask, i + 1,
                   IF mask[i] THEN Append(out, vs[i]) ELSE out)

\* data[name]: a name the table lacks raises KeyError.
GetColumn(h, name) ==
    IF name \in Range(h) THEN [kind |-> "ok", col |-> name]
    ELSE [kind |-> "KeyError", col |-> ""]

NoSel ==
    [kind |-> "none", variables |-> <<>>, input_variables |-> <<>>,
     truth_data |-> "", benchmark_data |-> ""]

\* The names the data cell binds, given the header h and the bindings
\* before: an exception leaves the later names as they were.
DataCell(h, old) ==
    LET iv == BoolIndex(h, InputMask(h), 1, <<>>)
        t == GetColumn(h, "isb")
        b == GetColumn(h, "nnbjet")
        first == [old EXCEPT !.variables = h, !.input_variables = iv]
    IN  IF t.kind # "ok" THEN [first EXCEPT !.kind = t.kind]
        ELSE IF b.kind # "ok"
        THEN [first EXCEPT !.kind = b.kind, !.truth_data = t.col]
        ELSE [first EXCEPT !.kind = "ok", !.truth_data = t.col,
                           !.benchmark_data = b.col]

NoCircle ==
    [ran |-> FALSE, all_points |-> <<>>, distances |-> <<>>,
     incircle |-> <<>>, outcircle |-> <<>>]

NoNeighbours ==
    [kind |-> "none", hsphere_points |-> <<>>, hsphere_moduli |-> <<>>,
     nearby_points |-> <<>>]

---------------------------------------------------------------------------
\* The kernel after the import cell and the data cell have run.

InitDataCell ==
    /\ header = DataHeader
    /\ sel = DataCell(DataHeader, NoSel)

InitPlots ==
    /\ SavePlots = FALSE
    /\ files = {}

InitWeek1 ==
    /\ draw = <<>>
    /\ circle = NoCircle
    /\ pn = NoNeighbours

InitKernel(ns) ==
    /\ names = ns
    /\ bquark = <<>>
    /\ N = 0
    /\ accuracy = NoRatio
    /\ fracWrong = NoRatio
    /\ heap = EmptyHeap
    /\ ret = NoCall
    /\ lastRun = "load"

Init ==
    /\ data \in Tables(MaxRows)
    /\ InitKernel({"data"})
    /\ InitDataCell /\ InitPlots /\ InitWeek1

InitEval ==
    /\ data \in TruthTables(MaxLen)
    /\ InitKernel({"data", "evaluate"})
    /\ InitDataCell /\ InitPlots /\ InitWeek1

\* The cell holding def evaluate.
DefineEvaluate ==
    /\ names' = names \cup {"evaluate"}
    /\ lastRun' = "def_evaluate"
    /\ UNCHANGED <<data, bquark, N, accuracy, fracWrong, heap, ret>>
    /\ UNCHANGED others

\* The selection cell on prob_b.
SelectProbB ==
    /\ bquark' = SelectLoop(data.prob_b, cut_prop_b, 1, <<>>)
    /\ names' = names \cup {"bquark"}
    /\ lastRun' = "select_prob_b"
    /\ UNCHANGED <<data, N, accuracy, fracWrong, heap, ret>>
    /\ UNCHANGED others

\* A name that is not bound: the cell stops with NameError.
RaiseNameError ==
    /\ ret' = Outcome(Failure("NameError", <<>>, heap))
    /\ heap' = Collect(heap, {N})
    /\ UNCHANGED <<N, accuracy, fracWrong>>

\* N, accuracy, fracWrong = evaluate(bq): an exception leaves the three
\* names as they were.
CallAndAssign(bq) ==
    IF "evaluate" \notin names THEN RaiseNameError
    ELSE LET r == evaluate(bq, data.isb, heap)
         IN  /\ ret' = Outcome(r)
             /\ IF r.kind = "ok"
                THEN /\ N' = r.N
                     /\ accuracy' = r.accuracy
                     /\ fracWrong' = r.fracWrong
                ELSE UNCHANGED <<N, accuracy, fracWrong>>
             /\ heap' = Collect(r.heap, {N', r.N})

Assigned(kind) ==
    IF kind = "ok" THEN {"N", "accuracy", "fracWrong"} ELSE {}

\* The cell evaluating the human selection.
EvaluateHuman ==
    /\ lastRun' = "evaluate_human"
    /\ IF "bquark" \notin names THEN RaiseNameError
       ELSE CallAndAssign(bquark)
    /\ names' = names \cup Assigned(ret'.kind)
    /\ UNCHANGED <<data, bquark>>
    /\ UNCHANGED others

\* The cell comparing with the Aleph tag: selection on nnbjet, then evaluate.
EvaluateAleph ==
    /\ lastRun' = "evaluate_aleph"
    /\ bquark' = SelectLoop(data.nnbjet, cut_nnbjet, 1, <<>>)
    /\ CallAndAssign(bquark')
    /\ names' = (names \cup {"bquark"}) \cup Assigned(ret'.kind)
    /\ UNCHANGED data
    /\ UNCHANGED others

\* A direct call evaluate(pred) on a list of labels; the result is shown
\* and assigned to nothing.
Call(pred) ==
    /\ "evaluate" \in names
    /\ LET r == evaluate(pred, data.isb, heap)
       IN  /\ ret' = Outcome(r)
           /\ heap' = Collect(r.heap, {N, r.N})
    /\ lastRun' = "call"
    /\ UNCHANGED <<data, names, bquark, N, accuracy, fracWrong>>
    /\ UNCHANGED others

\* A cell holding just evaluate(bquark).
CallOnBquark ==
    /\ "bquark" \in names
    /\ Call(bquark)

Next ==
    \/ DefineEvaluate
    \/ SelectProbB
    \/ EvaluateHuman
    \/ EvaluateAleph
    \/ CallOnBquark

\* A fresh kernel with evaluate defined, making one direct call.
NextEval ==
    /\ ret.kind = "none"
    /\ \E pred \in SeqsUpTo(Bits, MaxLen + 1) : Call(pred)

\* A kernel that has run the import cell only, on a file with any header.
InitColumns ==
    /\ data = [prob_b |-> <<>>, nnbjet |-> <<>>, isb |-> <<>>]
    /\ names = {}
    /\ bquark = <<>>
    /\ N = 0
    /\ accuracy = NoRatio
    /\ fracWrong = NoRatio
    /\ heap = EmptyHeap
    /\ ret = NoCall
    /\ lastRun = "import"
    /\ header \in Headers(MaxCols)
    /\ sel = NoSel
    /\ InitPlots /\ InitWeek1

\* The data cell.
LoadData ==
    /\ sel' = DataCell(header, sel)
    /\ names' = names \cup {"data"}
    /\ lastRun' = "load"
    /\ UNCHANGED <<data, bquark, N, accuracy, fracWrong, heap, ret>>
    /\ UNCHANGED <<header, SavePlots, files, draw, circle, pn>>

NextColumns == LoadData

\* SavedFiles without the test on the flag.
SavedFilesAlways(flag, fs) == fs \cup {"Hist_prob_b.pdf"}

\* if SavePlots : fig.savefig('Hist_prob_b.pdf', dpi=600)
SavedFiles(flag, fs) == IF flag THEN fs \cup {"Hist_prob_b.pdf"} ELSE fs

\* The import cell, run as written or with the flag edited to True.
SetSavePlots(flag) ==
    /\ SavePlots' = flag
    /\ lastRun' = "import"
    /\ UNCHANGED <<data, names, bquark, N, accuracy, fracWrong, heap, ret>>
    /\ UNCHANGED <<header, sel, files, draw, circle, pn>>

\* The cell drawing the histograms of prob_b.
PlotCell ==
    /\ names' = names \cup {"mask", "fig", "ax"}
    /\ files' = SavedFiles(SavePlots, files)
    /\ lastRun' = "plot"
    /\ UNCHANGED <<data, bquark, N, accuracy, fracWrong, heap, ret>>
    /\ UNCHANGED <<header, sel, SavePlots, draw, circle, pn>>

InitSmall ==
    /\ data \in Tables(MaxPlotRows)
    /\ InitKernel({"data"})
    /\ InitDataCell /\ InitPlots /\ InitWeek1

NextPlots ==
    \/ \E flag \in BOOLEAN : SetSavePlots(flag)
    \/ PlotCell
    \/ DefineEvaluate
    \/ SelectProbB
    \/ EvaluateHuman
    \/ EvaluateAleph

Spec == Init /\ [][Next]_vars

SpecColumns == InitColumns /\ [][NextColumns]_vars

SpecPlots == InitSmall /\ [][NextPlots]_vars

---------------------------------------------------------------------------
\* The curse-of-dimensionality notebook.

\* 1.0 on the grid of halves.
Unit == 2

\* rng.uniform(-1, 1, ...): the half-open interval [-1, 1).
Coords == (0 - Unit)..(Unit - 1)

\* A point of n coordinates, and the samples of at most m such points.
Points(n) == [1..n -> Coords]

Samples(m, n) == SeqsUpTo(Points(n), m)

\* np.linalg.norm(p, ord=2), squared.
RECURSIVE SumSquares(_, _)
SumSquares(p, i) == IF i = 0 THEN 0 ELSE p[i] * p[i] + SumSquares(p, i - 1)

Norm2(p) == SumSquares(p, Len(p))

\* distances < 1.0 and distances > 1.0, element by element.
InCircle(d2) == [i \in 1..Len(d2) |-> d2[i] < Unit * Unit]

OutCircle(d2) == [i \in 1..Len(d2) |-> d2[i] > Unit * Unit]

\* The b-jet notebook's names, none of them bound in this kernel.
InitIdle ==
    /\ data = [prob_b |-> <<>>, nnbjet |-> <<>>, isb |-> <<>>]
    /\ names = {}
    /\ bquark = <<>>
    /\ N = 0
    /\ accuracy = NoRatio
    /\ fracWrong = NoRatio
    /\ heap = EmptyHeap
    /\ ret = NoCall
    /\ lastRun = "import"
    /\ header = DataHeader
    /\ sel = NoSel
    /\ InitPlots

InitCircle ==
    /\ InitIdle
    /\ draw \in Samples(MaxPoints, 2)
    /\ circle = NoCircle
    /\ pn = NoNeighbours

\* The cell of the 2D example up to the two masks.
SampleCircle ==
    /\ LET d2 == [i \in 1..Len(draw) |-> Norm2(draw[i])]
       IN circle' = [ran |-> TRUE, all_points |-> draw, distances |-> d2,
                     incircle |-> InCircle(d2), outcircle |-> OutCircle(d2)]
    /\ lastRun' = "circle"
    /\ UNCHANGED <<data, names, bquark, N, accuracy, fracWrong, heap, ret>>
    /\ UNCHANGED <<header, sel, SavePlots, files, draw, pn>>

NextCircle == SampleCircle

SpecCircle == InitCircle /\ [][NextCircle]_vars

\* The numbers of dimensions plot_neighbours is called with.
Dims == {1, 2}

\* cdist(..., metric='euclidean') for one pair of points, squared.
Dist2(p, q) == SumSquares([c \in 1..Len(p) |-> p[c] - q[c]], Len(p))

\* sqrt(sep2) < r - sqrt(mod2) with r = 1.0, decided on the squares.
Closer(sep2, mod2) ==
    LET s == Unit * Unit - sep2 - mod2
    IN  s > 0 /\ 4 * sep2 * mod2 < s * s

\* Row i of (point_separations < edge_separations).astype(int).sum(axis=1):
\* the diagonal is masked; the one-dimensional edge_separations is laid
\* along the last axis, so column j is compared with edge_separations[j];
\* a row with no unmasked entry sums to masked.
NearbyRow(pts, mod2, i) ==
    LET cols == (1..Len(pts)) \ {i}
    IN  [masked |-> cols = {},
         count |-> Cardinality({j \in cols :
                                  Closer(Dist2(pts[i], pts[j]), mod2[j])})]

\* plot_neighbours(m, n, r=1.0, seed) up to nearby_points, on the sample
\* the generator yields.
plot_neighbours(points) ==
    IF Len(points) = 0
    THEN [NoNeighbours EXCEPT !.kind = "ZeroDivisionError"]
    ELSE LET moduli == [i \in 1..Len(points) |-> Norm2(points[i])]
             inside == InCircle(moduli)
             hp == BoolIndex(points, inside, 1, <<>>)
             hm == BoolIndex(moduli, inside, 1, <<>>)
         IN  [kind |-> "ok", hsphere_points |-> hp, hsphere_moduli |-> hm,
              nearby_points |-> [i \in 1..Len(hp) |-> NearbyRow(hp, hm, i)]]

InitNeighbours ==
    /\ InitIdle
    /\ draw \in UNION {Samples(MaxPoints, n) : n \in Dims}
    /\ circle = NoCircle
    /\ pn = NoNeighbours

\* A call of plot_neighbours.
PlotNeighbours ==
    /\ pn' = plot_neighbours(draw)
    /\ lastRun' = "plot_neighbours"
    /\ UNCHANGED <<data, names, bquark, N, accuracy, fracWrong, heap, ret>>
    /\ UNCHANGED <<header, sel, SavePlots, files, draw, circle>>

NextNeighbours == PlotNeighbours

SpecNeighbours == InitNeighbours /\ [][NextNeighbours]_vars

SpecEval == InitEval /\ [][NextEval]_vars

---------------------------------------------------------------------------
\* Properties of the outcome of the latest call of evaluate.

Returned == ret.kind = "ok"

Called == ret.kind \notin {"none", "NameError"}

EqualLength == Len(ret.pred) = Len(data.isb)

Report == heap[ret.N]

\* The number of rows with estimate p and truth a.
Pairs(pred, isb, p, a) ==
    Cardinality({i \in 1..Len(isb) : pred[i] = p /\ isb[i] = a})

PairMatrix(pred, isb) ==
    <<<<Pairs(pred, isb, 0, 0), Pairs(pred, isb, 0, 1)>>,
      <<Pairs(pred, isb, 1, 0), Pairs(pred, isb, 1, 1)>>>>

\* The labels a strict threshold gives.
Labels(col, cut) == [i \in 1..Len(col) |-> IF col[i] > cut THEN 1 ELSE 0]

\* C1: for binary sequences of equal length, the four counts evaluate
\* returns sum to that length.
C1_CountsSumToLength ==
    (Returned /\ EqualLength) =>
        Report[1][1] + Report[1][2] + Report[2][1] + Report[2][2]
            = Len(data.isb)

C1_Witness ==
    /\ Returned /\ EqualLength
    /\ \A p \in 1..2 : \A a \in 1..2 : Report[p][a] >= 1

\* C2: N[p][a] is the number of indices whose estimate is p and whose truth
\* is a (first index the estimate, second the truth).
C2_CountsMatchPairs ==
    (Returned /\ EqualLength) =>
        \A p \in Bits : \A a \in Bits :
            Report[p + 1][a + 1] = Pairs(ret.pred, data.isb, p, a)

C2_Witness ==
    /\ Returned
    /\ ret.pred = <<0, 0, 1, 1>>
    /\ data.isb = <<0, 1, 0, 1>>
    /\ Report = <<<<1, 1>>, <<1, 1>>>>

\* C3: over the rationals, fraction-wrong is (N01 + N10) / N, accuracy is
\* (N00 + N11) / N, and the two add up to 1.
C3_FractionsOfLength ==
    (Returned /\ EqualLength) =>
        LET n == Len(data.isb)
            fw == ret.fracWrong
            acc == ret.accuracy
        IN  /\ fw[2] > 0 /\ acc[2] > 0
            /\ n * fw[1] = (Report[1][2] + Report[2][1]) * fw[2]
            /\ n * acc[1] = (Report[1][1] + Report[2][2]) * acc[2]
            /\ acc[1] * fw[2] + fw[1] * acc[2] = acc[2] * fw[2]

C3_Witness ==
    /\ Returned /\ EqualLength
    /\ Report[1][2] > 0 /\ Report[2][1] > 0
    /\ ret.fracWrong[1] < ret.fracWrong[2]
    /\ ret.accuracy[1] > 0

\* C4: when the estimate equals the truth elementwise, fraction-wrong is 0,
\* accuracy is 1 and both off-diagonal counts are 0.
C4_PerfectAgreement ==
    (Returned /\ ret.pred = data.isb) =>
        /\ ret.fracWrong[1] = 0
        /\ ret.accuracy[1] = ret.accuracy[2]
        /\ Report[1][2] = 0 /\ Report[2][1] = 0

C4_Witness ==
    /\ Returned /\ ret.pred = data.isb
    /\ Report[1][1] > 0 /\ Report[2][2] > 0
    /\ ret.accuracy[1] = ret.accuracy[2]

\* C5: when the estimate differs from the truth at every index, accuracy is
\* 0, fraction-wrong is 1 and both diagonal counts are 0.
C5_TotalDisagreement ==
    (/\ Returned /\ EqualLength
     /\ \A i \in 1..Len(data.isb) : ret.pred[i] # data.isb[i]) =>
        /\ ret.accuracy[1] = 0
        /\ ret.fracWrong[1] = ret.fracWrong[2]
        /\ Report[1][1] = 0 /\ Report[2][2] = 0

C5_Witness ==
    /\ Returned /\ EqualLength
    /\ \A i \in 1..Len(data.isb) : ret.pred[i] # data.isb[i]
    /\ Report[1][2] > 0 /\ Report[2][1] > 0
    /\ ret.accuracy[1] = 0

\* C6: after either selection loop bquark has one label per row, 1 exactly
\* where the score is strictly greater than the cut and 0 elsewhere.
C6_StrictThreshold ==
    /\ lastRun = "select_prob_b" => bquark = Labels(data.prob_b, cut_prop_b)
    /\ lastRun = "evaluate_aleph" => bquark = Labels(data.nnbjet, cut_nnbjet)

C6_Witness ==
    /\ lastRun = "select_prob_b"
    /\ \E i \in 1..Len(bquark) : \E j \in 1..Len(bquark) :
          /\ data.prob_b[i] = cut_prop_b /\ bquark[i] = 0
          /\ data.prob_b[j] > cut_prop_b /\ bquark[j] = 1

\* C7 (as claimed): a call on zero-length sequences ends in an EmptyInput
\* error.
C7_EmptyInputKind ==
    (Called /\ Len(data.isb) = 0 /\ Len(ret.pred) = 0) =>
        ret.kind = "EmptyInput"

\* C7 (amended): a call on zero-length sequences ends in ZeroDivisionError;
\* no report is returned and no fraction with a zero denominator.
C7_EmptyRaisesZeroDivision ==
    (Called /\ Len(data.isb) = 0 /\ Len(ret.pred) = 0) =>
        /\ ret.kind = "ZeroDivisionError"
        /\ ret.N = 0 /\ heap = EmptyHeap
        /\ ret.accuracy[2] # 0 /\ ret.fracWrong[2] # 0

C7_Witness ==
    /\ ret.kind = "ZeroDivisionError"
    /\ data.isb = <<>> /\ ret.pred = <<>>

\* C8 (as claimed): when the two sequences differ in length the call fails
\* and returns no report.
C8_MismatchReturnsNothing ==
    (Called /\ Len(ret.pred) # Len(data.isb)) => ~Returned

\* C9: a direct call leaves every global name and the report N refers to as
\* they were, a call from the evaluation cell leaves the list passed and the
\* table as they were, and a call repeating the inputs of the call before it
\* returns the same counts, accuracy and fraction-wrong.
C9_EvaluateIsPure ==
    [][/\ lastRun' = "call" =>
            /\ data' = data /\ bquark' = bquark /\ names' = names
            /\ N' = N /\ accuracy' = accuracy /\ fracWrong' = fracWrong
            /\ N # 0 => heap'[N] = heap[N]
       /\ lastRun' = "evaluate_human" => (data' = data /\ bquark' = bquark)
       /\ (ret.kind = "ok" /\ ret'.kind = "ok" /\ ret'.pred = ret.pred) =>
            /\ heap'[ret'.N] = heap[ret.N]
            /\ ret'.accuracy = ret.accuracy
            /\ ret'.fracWrong = ret.fracWrong]_vars

C9_Witness ==
    /\ lastRun = "call" /\ Returned
    /\ N # 0 /\ ret.N # N
    /\ heap[ret.N] = heap[N]
    /\ Len(bquark) > 1

\* C10: every returned report is a new object holding the counts of that
\* call's inputs alone, and no call changes a report that exists already.
C10_ReportsAreFresh ==
    [][/\ ret'.kind = "ok" => heap'[ret'.N] = PairMatrix(ret'.pred, data'.isb)
       /\ (ret' # ret /\ ret'.kind = "ok") => ret'.N \notin DOMAIN heap
       /\ \A id \in DOMAIN heap \cap DOMAIN heap' : heap'[id] = heap[id]]_vars

C10_Witness ==
    /\ Returned /\ N # 0 /\ ret.N # N
    /\ heap[ret.N] # heap[N]
    /\ bquark = Labels(data.prob_b, cut_prop_b)
    /\ accuracy # ret.accuracy

---------------------------------------------------------------------------
\* Properties of the data cell.

IsInput(c) == c \notin {"nnbjet", "isb", "energy", "cTheta", "phi"}

\* C11: the input features are the loaded columns other than nnbjet, isb,
\* energy, cTheta and phi, in the table's order; the truth is column isb and
\* the benchmark column nnbjet, and neither is an input feature.
C11_ColumnsByName ==
    /\ sel.kind # "none" =>
          /\ sel.variables = header
          /\ sel.input_variables = SelectSeq(header, IsInput)
          /\ "isb" \notin Range(sel.input_variables)
          /\ "nnbjet" \notin Range(sel.input_variables)
    /\ sel.kind = "ok" =>
          /\ sel.truth_data = "isb"
          /\ sel.benchmark_data = "nnbjet"

C11_Witness ==
    /\ sel.kind = "ok"
    /\ Len(sel.input_variables) = 2
    /\ \E i \in DOMAIN header : \E j \in DOMAIN header :
          /\ i < j /\ j < Len(header)
          /\ IsInput(header[i]) /\ ~IsInput(header[j])
          /\ IsInput(header[Len(header)])

---------------------------------------------------------------------------
\* Properties of the plotting cell.

\* What the selection and the evaluation hold is fixed by the table alone.
ResultsFromData ==
    /\ "bquark" \in names =>
          bquark \in {Labels(data.prob_b, cut_prop_b),
                      Labels(data.nnbjet, cut_nnbjet)}
    /\ Returned => Report = PairMatrix(ret.pred, data.isb)
    /\ "N" \in names => N \in DOMAIN heap

\* C12: the plotting cell writes the histogram file exactly when SavePlots
\* is true as it runs and nothing else ever writes a file; the flag is False
\* at the start; a change of the flag changes no other name, and the
\* plotting cell changes no name of the selection or the evaluation.
C12_SavePlotsOnly ==
    /\ [](files \subseteq {"Hist_prob_b.pdf"} /\ ResultsFromData)
    /\ [][/\ files' # files =>
              /\ SavePlots /\ lastRun' = "plot"
              /\ files' = files \cup {"Hist_prob_b.pdf"}
          /\ (lastRun' = "plot" /\ SavePlots) => "Hist_prob_b.pdf" \in files'
          /\ (lastRun' = "plot" /\ ~SavePlots) => files' = files
          /\ SavePlots' # SavePlots =>
              UNCHANGED <<data, names, bquark, N, accuracy, fracWrong,
                          heap, ret, header, sel, files>>
          /\ lastRun' = "plot" =>
              UNCHANGED <<data, bquark, N, accuracy, fracWrong, heap, ret,
                          header, sel, SavePlots>>]_vars

C12_Witness ==
    /\ lastRun = "plot" /\ SavePlots
    /\ files = {"Hist_prob_b.pdf"}
    /\ Returned /\ "N" \in names

\* The plotting cell has run with the flag False and no file exists.
C12_WitnessOff ==
    lastRun = "plot" /\ ~SavePlots /\ files = {}

---------------------------------------------------------------------------
\* Properties of the 2D Monte Carlo example.

---------------------------------------------------------------------------
\* Properties of the reset in the selection cells.

\* C14: however often and in whatever order the two selection cells have
\* run, bquark holds one label per row, each 0 or 1, and they are the labels
\* of one cell alone (the one run last); a call of evaluate on bquark gets a
\* sequence as long as the truth column and never runs past its end.
C14_ResetBeforeAppend ==
    /\ "bquark" \in names =>
          /\ Len(bquark) = Len(data.isb)
          /\ \A i \in 1..Len(bquark) : bquark[i] \in Bits
          /\ \/ bquark = Labels(data.prob_b, cut_prop_b)
             \/ bquark = Labels(data.nnbjet, cut_nnbjet)
    /\ (lastRun \in {"select_prob_b", "evaluate_aleph"}) => "bquark" \in names
    /\ (Called /\ ret.kind # "NameError") =>
          /\ Len(ret.pred) = Len(data.isb)
          /\ ret.kind # "IndexError"

\* Both selection cells have run, the Aleph one first, and their labels
\* differ in every row.
C14_Witness ==
    /\ lastRun = "select_prob_b"
    /\ Len(bquark) = Len(data.isb) /\ Len(bquark) >= 2
    /\ Returned /\ ret.pred = Labels(data.nnbjet, cut_nnbjet)
    /\ \A i \in 1..Len(bquark) : bquark[i] # ret.pred[i]

---------------------------------------------------------------------------
\* Properties of plot_neighbours.

\* The other accepted points closer to point i than point i is to the edge.
OwnEdgeNeighbours(i) ==
    {j \in (1..Len(pn.hsphere_points)) \ {i} :
        Closer(Dist2(pn.hsphere_points[i], pn.hsphere_points[j]),
               pn.hsphere_moduli[i])}

\* hsphere_points and hsphere_moduli are index-aligned and every accepted
\* point is strictly inside the sphere.
AlignedInside ==
    /\ Len(pn.hsphere_moduli) = Len(pn.hsphere_points)
    /\ \A i \in 1..Len(pn.hsphere_points) :
          /\ pn.hsphere_moduli[i] = Norm2(pn.hsphere_points[i])
          /\ pn.hsphere_moduli[i] < Unit * Unit

\* C15: for each accepted point i the count nearby_points[i] is the number
\* of other accepted points closer to i than i's own distance to the edge;
\* the two arrays of accepted points are index-aligned and every edge
\* distance is positive.  (A row with no other point, whose count is
\* masked, is left aside.)
C15_OwnEdgeCount ==
    pn.kind = "ok" =>
        /\ AlignedInside
        /\ \A i \in 1..Len(pn.hsphere_points) :
              ~pn.nearby_points[i].masked =>
                  pn.nearby_points[i].count = Cardinality(OwnEdgeNeighbours(i))

===========================================================================
